---- MODULE Spec2Model ----
(***************************************************************************)
(* Model of the document-store client of the routing engine:               *)
(* src/firebase_client.py (FirebaseClient: lazy connection, transaction    *)
(* scope, document create/get) driven by callers that each run one client  *)
(* method at a time, statement by statement.  The remote services          *)
(* (firebase_admin app registry, the Firestore store, the credentials      *)
(* file) are the environment of the client.                                *)
(***************************************************************************)
EXTENDS Integers, Sequences, FiniteSets, TLC

\* ------------------------------------------------------------------ bounds
NumCallers == 2
MaxOps == 2
MaxBodyWrites == 1
MaxCorsLen == 3

\* ------------------------------------------------------------------ values
None == "None"
Callers == 1..NumCallers
Collections == {"routes"}
DataValues == {"d1", "d2"}
\* document_id arguments a caller can pass: None (omitted) or a string
SuppliedIds == {"", "x"}
\* identifiers the store generates, in the order it generates them
AutoIdPool == <<"auto1", "auto2", "auto3", "auto4", "auto5", "auto6", "auto7", "auto8">>
AutoIds == {AutoIdPool[i] : i \in 1..Len(AutoIdPool)}
DocIds == SuppliedIds \cup AutoIds
\* steps of session establishment at which the lower layer can fail
Faults == {"none", "Certificate", "initialize_app", "client"}
\* errors a remote write can raise: only the first is a FirebaseError
WriteErrors == {"FirebaseError", "GoogleAPICallError"}
\* errors a transaction body can raise: the last is no subclass of Exception
BodyErrors == {"ValueError", "KeyboardInterrupt"}

VARIABLES
    app,           \* FirebaseClient._app
    db,            \* FirebaseClient._db
    initialized,   \* FirebaseClient._initialized
    defaultApp,    \* firebase_admin: the default app is registered
    initAppCalls,  \* number of firebase_admin.initialize_app calls made
    credsExist,    \* os.path.exists(config.firebase.credentials_path)
    fault,         \* the step of session establishment that currently fails
    store,         \* the remote store: <<collection, id>> -> data or None
    autoCount,     \* identifiers the store has generated so far
    pc,            \* each caller's position in the client's code
    call,          \* each caller's running client method and its locals
    scope,         \* each caller's open transaction scope
    result,        \* what the caller's top-level call returned or raised
    top,           \* the client method the caller called
    pre,           \* the client and store as they were when the call began
    obs,           \* remote write attempts, write failure and runs of initialize()
                   \* started by db in the running call
    lastInit,      \* how the most recent run of initialize() ended
    written,       \* last data a successful create_document was given per (c, id)
    nCalls,        \* top-level calls made so far
    osEnviron,     \* os.environ: the environment variables that are set
    config         \* config.config, the module's global Config() of line 96

vars == <<app, db, initialized, defaultApp, initAppCalls, credsExist, fault,
          store, autoCount, pc, call, scope, result, top, pre, obs, lastInit, written, nCalls,
          osEnviron, config>>

clientVars == <<app, db, initialized>>
adminVars == <<defaultApp, initAppCalls>>
envVars == <<credsExist, fault, osEnviron, config>>
storeVars == <<store, autoCount, written>>

NoCall == [op |-> "none", collection |-> None, data |-> None, arg_id |-> None,
           document_id |-> None, ret |-> None]
TransactionCall == [NoCall EXCEPT !.op = "transaction"]
NoObs == [attempts |-> 0, writeError |-> None, lazyInits |-> 0]
NoScope == [active |-> FALSE, status |-> "none", buffered |-> {}, bodyCalls |-> 0,
            error |-> None]
NoResult == [kind |-> "none", value |-> None]
EmptyStore == [k \in Collections \X DocIds |-> None]
NoPre == [app |-> None, db |-> None, initialized |-> FALSE, initAppCalls |-> 0,
          store |-> EmptyStore, lastInit |-> None, autoCount |-> 0]

Snapshot == [app |-> app, db |-> db, initialized |-> initialized,
             initAppCalls |-> initAppCalls, store |-> store, lastInit |-> lastInit,
             autoCount |-> autoCount]

\* ------------------------------------------------- config.py
WILDCARD == <<"*">>
EmptyEnviron == [n \in {} |-> None]

\* os.getenv(name, default)
Getenv(env, name, default) == IF name \in DOMAIN env THEN env[name] ELSE default

\* str.lower() on the values API_DEBUG is given here
Lower(s) ==
    CASE s = "TRUE" -> "true"
      [] s = "True" -> "true"
      [] s = "FALSE" -> "false"
      [] OTHER -> s

\* str.split(sep): the pieces of s between the separators, empty pieces kept
RECURSIVE Split(_, _)
Split(s, sep) ==
    IF \A i \in 1..Len(s) : s[i] # sep
    THEN <<s>>
    ELSE LET i == CHOOSE j \in 1..Len(s) :
                      s[j] = sep /\ \A k \in 1..(j - 1) : s[k] # sep
         IN <<SubSeq(s, 1, i - 1)>> \o Split(SubSeq(s, i + 1, Len(s)), sep)

\* x in list
InList(x, list) == \E i \in 1..Len(list) : list[i] = x

\* lines 11-15: the values of the Environment enum
EnvironmentValues == {"development", "staging", "production"}

\* lines 29-31: the defaults of FirebaseConfig
FirebaseConfig(env) ==
    [project_id |-> Getenv(env, "FIREBASE_PROJECT_ID", "api-routing-engine"),
     credentials_path |-> Getenv(env, "FIREBASE_CREDENTIALS_PATH",
                                 "./service-account-key.json"),
     database_url |-> Getenv(env, "FIREBASE_DATABASE_URL", "")]

\* lines 46-47: the defaults of APIConfig that Config validates
APIConfig(env) ==
    [debug |-> Lower(Getenv(env, "API_DEBUG", "false")) = "true",
     cors_origins |-> Split(Getenv(env, "CORS_ORIGINS", WILDCARD), ",")]

\* FirebaseConfig.validate without the test of line 35
ValidateAlways(fb) == "ok"

\* lines 33-37: FirebaseConfig.validate, "ok" for return True
Validate(fb) ==
    IF fb.project_id = "" THEN "Firebase project ID is required" ELSE "ok"

\* Config.__post_init__ without the test of line 91
PostInitNoCorsTest(c) ==
    IF Validate(c.firebase) # "ok" THEN Validate(c.firebase)
    ELSE IF c.environment = "production" /\ c.api.debug
    THEN "Debug mode cannot be enabled in production"
    ELSE "ok"

\* lines 84-92: Config.__post_init__, "ok" or the message of the ValueError
PostInit(c) ==
    IF Validate(c.firebase) # "ok" THEN Validate(c.firebase)
    ELSE IF c.environment = "production" /\ c.api.debug
    THEN "Debug mode cannot be enabled in production"
    ELSE IF c.environment = "production" /\ InList(WILDCARD, c.api.cors_origins)
    THEN "Wildcard CORS origins not allowed in production"
    ELSE "ok"

Unbuilt == [status |-> "unbuilt", error |-> None, snapshots |-> {}]

\* lines 78-96: Config(): the Environment of the tag (a ValueError when it is
\* no value of the enum), the default sections, then __post_init__; the
\* snapshot exists only when nothing raised
NewConfig(env) ==
    LET tag == Getenv(env, "ENVIRONMENT", "development")
        c == [environment |-> tag, firebase |-> FirebaseConfig(env),
              api |-> APIConfig(env)]
    IN IF tag \notin EnvironmentValues
       THEN [status |-> "ValueError", error |-> "not a valid Environment",
             snapshots |-> {}]
       ELSE IF PostInit(c) # "ok"
       THEN [status |-> "ValueError", error |-> PostInit(c), snapshots |-> {}]
       ELSE [status |-> "ok", error |-> None, snapshots |-> {c}]

\* FirebaseClient.__init__ and a process that has made no call yet
Init ==
    /\ osEnviron = EmptyEnviron
    /\ config = NewConfig(EmptyEnviron)
    /\ app = None
    /\ db = None
    /\ initialized = FALSE
    /\ defaultApp = FALSE
    /\ initAppCalls = 0
    /\ credsExist \in BOOLEAN
    /\ fault = "none"
    /\ store = EmptyStore
    /\ autoCount = 0
    /\ pc = [t \in Callers |-> "idle"]
    /\ call = [t \in Callers |-> NoCall]
    /\ scope = [t \in Callers |-> NoScope]
    /\ result = [t \in Callers |-> NoResult]
    /\ top = [t \in Callers |-> NoCall]
    /\ pre = [t \in Callers |-> NoPre]
    /\ obs = [t \in Callers |-> NoObs]
    /\ lastInit = None
    /\ written = EmptyStore
    /\ nCalls = 0

\* Python truthiness of an Optional[str]
Truthy(s) == s # None /\ s # ""

\* ------------------------------------------------- return and raise
\* A return statement of the running method: control goes back to the
\* transaction body when the method was called from one, else to the caller.
Return(t, v) ==
    IF scope[t].active /\ call[t].op # "transaction"
    THEN /\ pc' = [pc EXCEPT ![t] = "tx_body"]
         /\ call' = [call EXCEPT ![t] = TransactionCall]
         /\ UNCHANGED <<result, scope>>
    ELSE /\ pc' = [pc EXCEPT ![t] = "done"]
         /\ result' = [result EXCEPT ![t] = [kind |-> "return", value |-> v]]
         /\ UNCHANGED <<call, scope>>

\* An exception leaving the running method: inside a transaction body it
\* reaches the handler of the scope (line 88), else the caller.
Raise(t, e) ==
    IF scope[t].active /\ call[t].op # "transaction"
    THEN /\ pc' = [pc EXCEPT ![t] = "tx_l88"]
         /\ call' = [call EXCEPT ![t] = TransactionCall]
         /\ scope' = [scope EXCEPT ![t].error = e]
         /\ UNCHANGED result
    ELSE /\ pc' = [pc EXCEPT ![t] = "done"]
         /\ result' = [result EXCEPT ![t] = [kind |-> "raise", value |-> e]]
         /\ UNCHANGED <<call, scope>>

Jump(t, l) == pc' = [pc EXCEPT ![t] = l]

Goto(t, l) ==
    /\ Jump(t, l)
    /\ UNCHANGED <<call, scope, result>>

\* ------------------------------------------------- FirebaseClient.initialize
\* lines 67-73: both handlers log the error and re-raise it
InitializeExcept(t, e) ==
    /\ Raise(t, e)
    /\ lastInit' = e

\* line 65 (and 42): return True, to the caller or to the db property
InitializeReturn(t) ==
    /\ IF call[t].op = "initialize"
       THEN Return(t, "True")
       ELSE Goto(t, "db_l80")
    /\ lastInit' = "True"

\* the next statement of initialize()
Proceed(t, l) ==
    /\ Goto(t, l)
    /\ UNCHANGED lastInit

\* InitCheck without the already-initialized test of line 40
InitCheckNoGuard(t) ==
    /\ pc[t] = "init_l40"
    /\ Proceed(t, "init_l46")
    /\ UNCHANGED <<clientVars, adminVars, envVars, storeVars, top, pre, obs, nCalls>>

\* InitCheck fetching the store client again when already initialized
InitCheckRefresh(t) ==
    /\ pc[t] = "init_l40"
    /\ IF initialized /\ app # None
       THEN /\ db' = "Client2"
            /\ InitializeReturn(t)
       ELSE /\ Proceed(t, "init_l46")
            /\ UNCHANGED db
    /\ UNCHANGED <<app, initialized, adminVars, envVars, storeVars, top, pre, obs, nCalls>>

\* lines 40-42: already initialized
InitCheck(t) ==
    /\ pc[t] = "init_l40"
    /\ IF initialized /\ app # None
       THEN InitializeReturn(t)
       ELSE Proceed(t, "init_l46")
    /\ UNCHANGED <<clientVars, adminVars, envVars, storeVars, top, pre, obs, nCalls>>

\* CredsCheck without the existence test of line 46
CredsCheckSkipped(t) ==
    /\ pc[t] = "init_l46"
    /\ Proceed(t, "init_l51")
    /\ UNCHANGED <<clientVars, adminVars, envVars, storeVars, top, pre, obs, nCalls>>

\* lines 45-48: the credentials file must exist
CredsCheck(t) ==
    /\ pc[t] = "init_l46"
    /\ IF ~credsExist
       THEN InitializeExcept(t, "FileNotFoundError")
       ELSE Proceed(t, "init_l51")
    /\ UNCHANGED <<clientVars, adminVars, envVars, storeVars, top, pre, obs, nCalls>>

\* line 51: credentials.Certificate(creds_path)
Certificate(t) ==
    /\ pc[t] = "init_l51"
    /\ IF fault = "Certificate"
       THEN InitializeExcept(t, "CertificateError")
       ELSE Proceed(t, "init_l54")
    /\ UNCHANGED <<clientVars, adminVars, envVars, storeVars, top, pre, obs, nCalls>>

\* lines 54-57: firebase_admin.initialize_app registers the default app and
\* raises ValueError when the default app already exists
InitializeApp(t) ==
    /\ pc[t] = "init_l54"
    /\ initAppCalls' = initAppCalls + 1
    /\ IF defaultApp
       THEN /\ InitializeExcept(t, "ValueError")
            /\ UNCHANGED defaultApp
       ELSE IF fault = "initialize_app"
       THEN /\ InitializeExcept(t, "FirebaseError")
            /\ UNCHANGED defaultApp
       ELSE /\ defaultApp' = TRUE
            /\ Proceed(t, "init_l59")
    /\ UNCHANGED <<clientVars, envVars, storeVars, top, pre, obs, nCalls>>

\* line 59: self._app = firebase_admin.get_app()
GetApp(t) ==
    /\ pc[t] = "init_l59"
    /\ IF defaultApp
       THEN /\ app' = "App"
            /\ Proceed(t, "init_l60")
       ELSE /\ InitializeExcept(t, "ValueError")
            /\ UNCHANGED app
    /\ UNCHANGED <<db, initialized, adminVars, envVars, storeVars, top, pre, obs, nCalls>>

\* line 60: self._db = firestore.client()
FirestoreClientStep(t) ==
    /\ pc[t] = "init_l60"
    /\ IF fault = "client"
       THEN /\ InitializeExcept(t, "FirebaseError")
            /\ UNCHANGED db
       ELSE /\ db' = "Client"
            /\ Proceed(t, "init_l61")
    /\ UNCHANGED <<app, initialized, adminVars, envVars, storeVars, top, pre, obs, nCalls>>

\* lines 61-65: self._initialized = True; return True
SetInitialized(t) ==
    /\ pc[t] = "init_l61"
    /\ initialized' = TRUE
    /\ InitializeReturn(t)
    /\ UNCHANGED <<app, db, adminVars, envVars, storeVars, top, pre, obs, nCalls>>

\* ------------------------------------------------- FirebaseClient.db
\* DbCheck without the lazy initialization of lines 78-79
DbCheckNoInit(t) ==
    /\ pc[t] = "db_l78"
    /\ Goto(t, "db_l80")
    /\ UNCHANGED <<clientVars, adminVars, envVars, storeVars, top, pre, obs, lastInit, nCalls>>

\* line 78-79: initialize on first use
DbCheck(t) ==
    /\ pc[t] = "db_l78"
    /\ IF ~initialized \/ db = None
       THEN /\ Goto(t, "init_l40")
            /\ obs' = [obs EXCEPT ![t].lazyInits = @ + 1]
       ELSE /\ Goto(t, "db_l80")
            /\ UNCHANGED obs
    /\ UNCHANGED <<clientVars, adminVars, envVars, storeVars, top, pre, lastInit, nCalls>>

\* line 80: return self._db, to the caller or to the method that read self.db;
\* a method that gets None fails on its attribute access
DbReturn(t) ==
    /\ pc[t] = "db_l80"
    /\ IF call[t].op = "db"
       THEN Return(t, db)
       ELSE IF db = None
       THEN Raise(t, "AttributeError")
       ELSE Goto(t, call[t].ret)
    /\ UNCHANGED <<clientVars, adminVars, envVars, storeVars, top, pre, obs, lastInit, nCalls>>

\* ------------------------------------------------- FirebaseClient.create_document
\* CreateExcept swallowing the error and returning the identifier instead
CreateExceptSwallow(t, e) == Return(t, call[t].document_id)

\* lines 122-125: a FirebaseError is logged and re-raised; any other error
\* passes the handler untouched
CreateExcept(t, e) == Raise(t, e)

\* line 109: if document_id: ... else: ..., then self.db of line 110 or 115
CreateBranch(t) ==
    /\ pc[t] = "cd_l109"
    /\ call' = [call EXCEPT ![t].ret =
                   IF Truthy(call[t].document_id) THEN "cd_l111" ELSE "cd_l115"]
    /\ Jump(t, "db_l78")
    /\ UNCHANGED <<scope, result>>
    /\ UNCHANGED <<clientVars, adminVars, envVars, storeVars, top, pre, obs, lastInit, nCalls>>

\* lines 110-111: doc_ref.set(data), one remote write under the given identifier
DocSet(t) ==
    /\ pc[t] = "cd_l111"
    /\ LET key == <<call[t].collection, call[t].document_id>> IN
       \/ /\ store' = [store EXCEPT ![key] = call[t].data]
          /\ written' = [written EXCEPT ![key] = call[t].data]
          /\ obs' = [obs EXCEPT ![t].attempts = @ + 1]
          /\ Goto(t, "cd_l120")
       \/ \E e \in WriteErrors :
             /\ obs' = [obs EXCEPT ![t].attempts = @ + 1, ![t].writeError = e]
             /\ CreateExcept(t, e)
             /\ UNCHANGED <<store, written>>
    /\ UNCHANGED <<clientVars, adminVars, envVars, autoCount, top, pre, lastInit, nCalls>>

\* CollectionAdd writing under an identifier that was generated before
CollectionAddReuse(t) ==
    /\ pc[t] = "cd_l115"
    /\ LET id == AutoIdPool[1]
           key == <<call[t].collection, id>> IN
       /\ store' = [store EXCEPT ![key] = call[t].data]
       /\ call' = [call EXCEPT ![t].document_id = id]
    /\ autoCount' = IF autoCount = 0 THEN 1 ELSE autoCount
    /\ obs' = [obs EXCEPT ![t].attempts = @ + 1]
    /\ Jump(t, "cd_l120")
    /\ UNCHANGED <<scope, result, written>>
    /\ UNCHANGED <<clientVars, adminVars, envVars, top, pre, lastInit, nCalls>>

\* lines 115-116: collection.add(data): the store generates the identifier,
\* which becomes document_id
CollectionAdd(t) ==
    /\ pc[t] = "cd_l115"
    /\ \/ /\ autoCount < Len(AutoIdPool)
          /\ LET id == AutoIdPool[autoCount + 1]
                 key == <<call[t].collection, id>> IN
             /\ store' = [store EXCEPT ![key] = call[t].data]
             /\ IF call[t].arg_id = None
                THEN UNCHANGED written
                ELSE written' = [written EXCEPT ![<<call[t].collection, call[t].arg_id>>]
                                    = call[t].data]
             /\ call' = [call EXCEPT ![t].document_id = id]
          /\ autoCount' = autoCount + 1
          /\ obs' = [obs EXCEPT ![t].attempts = @ + 1]
          /\ Jump(t, "cd_l120")
          /\ UNCHANGED <<scope, result>>
       \/ \E e \in WriteErrors :
             /\ obs' = [obs EXCEPT ![t].attempts = @ + 1, ![t].writeError = e]
             /\ CreateExcept(t, e)
             /\ UNCHANGED <<store, written, autoCount>>
    /\ UNCHANGED <<clientVars, adminVars, envVars, top, pre, lastInit, nCalls>>

\* line 120: return document_id
CreateReturn(t) ==
    /\ pc[t] = "cd_l120"
    /\ Return(t, call[t].document_id)
    /\ UNCHANGED <<clientVars, adminVars, envVars, storeVars, top, pre, obs, lastInit, nCalls>>

\* ------------------------------------------------- FirebaseClient.get_document
\* the handle is obtained through self.db, as in every store operation
GetDocumentDb(t) ==
    /\ pc[t] = "gd_l127"
    /\ call' = [call EXCEPT ![t].ret = "gd_read"]
    /\ Jump(t, "db_l78")
    /\ UNCHANGED <<scope, result>>
    /\ UNCHANGED <<clientVars, adminVars, envVars, storeVars, top, pre, obs, lastInit, nCalls>>

\* the document's field mapping if found, None if not; a transport failure raises
GetDocumentRead(t) ==
    /\ pc[t] = "gd_read"
    /\ \/ Return(t, store[<<call[t].collection, call[t].document_id>>])
       \/ Raise(t, "StoreReadError")
    /\ UNCHANGED <<clientVars, adminVars, envVars, storeVars, top, pre, obs, lastInit, nCalls>>

\* ------------------------------------------------- FirebaseClient.transaction
\* line 85: self.db
TransactionDb(t) ==
    /\ pc[t] = "tx_l85"
    /\ call' = [call EXCEPT ![t].ret = "tx_l85b"]
    /\ Jump(t, "db_l78")
    /\ UNCHANGED <<scope, result>>
    /\ UNCHANGED <<clientVars, adminVars, envVars, storeVars, top, pre, obs, lastInit, nCalls>>

\* lines 85-87: transaction = self.db.transaction(); yield transaction
TransactionAcquire(t) ==
    /\ pc[t] = "tx_l85b"
    /\ scope' = [scope EXCEPT ![t] = [NoScope EXCEPT !.active = TRUE, !.status = "open"]]
    /\ Jump(t, "tx_body")
    /\ UNCHANGED <<call, result>>
    /\ UNCHANGED <<clientVars, adminVars, envVars, storeVars, top, pre, obs, lastInit, nCalls>>

\* line 87, the body of the with block calls the client's create_document
BodyCreateDocument(t) ==
    /\ pc[t] = "tx_body"
    /\ scope[t].bodyCalls < MaxBodyWrites
    /\ \E c \in Collections, d \in DataValues, id \in SuppliedIds \cup {None} :
          call' = [call EXCEPT ![t] =
                      [op |-> "create_document", collection |-> c, data |-> d,
                       arg_id |-> id, document_id |-> id, ret |-> None]]
    /\ scope' = [scope EXCEPT ![t].bodyCalls = @ + 1]
    /\ obs' = [obs EXCEPT ![t] = [NoObs EXCEPT !.lazyInits = obs[t].lazyInits]]
    /\ Jump(t, "cd_l109")
    /\ UNCHANGED result
    /\ UNCHANGED <<clientVars, adminVars, envVars, storeVars, top, pre, lastInit, nCalls>>

\* line 87, the body writes through the yielded transaction object
\* (transaction.set): the write is buffered in the transaction until a commit
BodyTransactionSet(t) ==
    /\ pc[t] = "tx_body"
    /\ scope[t].bodyCalls < MaxBodyWrites
    /\ \E c \in Collections, d \in DataValues, id \in SuppliedIds \ {""} :
          scope' = [scope EXCEPT ![t].bodyCalls = @ + 1,
                                 ![t].buffered = @ \cup {<<c, id, d>>}]
    /\ UNCHANGED <<pc, call, result>>
    /\ UNCHANGED <<clientVars, adminVars, envVars, storeVars, top, pre, obs, lastInit, nCalls>>

\* line 87, the body completes normally: the generator resumes after the yield
BodyComplete(t) ==
    /\ pc[t] = "tx_body"
    /\ Goto(t, "tx_exit")
    /\ UNCHANGED <<clientVars, adminVars, envVars, storeVars, top, pre, obs, lastInit, nCalls>>

\* line 87, the body raises: the error is thrown into the generator at the yield
BodyRaise(t) ==
    /\ pc[t] = "tx_body"
    /\ \E e \in BodyErrors : scope' = [scope EXCEPT ![t].error = e]
    /\ Jump(t, "tx_l88")
    /\ UNCHANGED <<call, result>>
    /\ UNCHANGED <<clientVars, adminVars, envVars, storeVars, top, pre, obs, lastInit, nCalls>>

\* lines 88-90: an Exception is logged and re-raised, any other error passes
\* the handler; the transaction object is left as it is
TransactionExcept(t) ==
    /\ pc[t] = "tx_l88"
    /\ scope' = [scope EXCEPT ![t].active = FALSE]
    /\ result' = [result EXCEPT ![t] = [kind |-> "raise", value |-> scope[t].error]]
    /\ Jump(t, "done")
    /\ UNCHANGED call
    /\ UNCHANGED <<clientVars, adminVars, envVars, storeVars, top, pre, obs, lastInit, nCalls>>

\* after line 87: the generator ends and the with statement completes; the
\* transaction object is left as it is
TransactionExit(t) ==
    /\ pc[t] = "tx_exit"
    /\ scope' = [scope EXCEPT ![t].active = FALSE]
    /\ result' = [result EXCEPT ![t] = [kind |-> "return", value |-> None]]
    /\ Jump(t, "done")
    /\ UNCHANGED call
    /\ UNCHANGED <<clientVars, adminVars, envVars, storeVars, top, pre, obs, lastInit, nCalls>>

\* ------------------------------------------------- callers
Begin(t, c, l) ==
    /\ nCalls < MaxOps
    /\ nCalls' = nCalls + 1
    /\ call' = [call EXCEPT ![t] = c]
    /\ top' = [top EXCEPT ![t] = c]
    /\ pre' = [pre EXCEPT ![t] = Snapshot]
    /\ obs' = [obs EXCEPT ![t] = NoObs]
    /\ Jump(t, l)
    /\ UNCHANGED <<scope, result>>
    /\ UNCHANGED <<clientVars, adminVars, envVars, storeVars, lastInit>>

CallInitialize(t) ==
    /\ pc[t] = "idle"
    /\ Begin(t, [NoCall EXCEPT !.op = "initialize"], "init_l40")

CallDb(t) ==
    /\ pc[t] = "idle"
    /\ Begin(t, [NoCall EXCEPT !.op = "db"], "db_l78")

CallCreateDocument(t) ==
    /\ pc[t] = "idle"
    /\ \E c \in Collections, d \in DataValues, id \in SuppliedIds \cup {None} :
          Begin(t, [op |-> "create_document", collection |-> c, data |-> d,
                    arg_id |-> id, document_id |-> id, ret |-> None], "cd_l109")

\* the caller asks for an identifier it passed or one the store has generated
CallGetDocument(t) ==
    /\ pc[t] = "idle"
    /\ \E c \in Collections, id \in SuppliedIds \cup {AutoIdPool[i] : i \in 1..autoCount} :
          Begin(t, [op |-> "get_document", collection |-> c, data |-> None,
                    arg_id |-> id, document_id |-> id, ret |-> None], "gd_l127")

CallTransaction(t) ==
    /\ pc[t] = "idle"
    /\ Begin(t, TransactionCall, "tx_l85")

\* the caller has its result and is ready for its next call
Finish(t) ==
    /\ pc[t] = "done"
    /\ Jump(t, "idle")
    /\ call' = [call EXCEPT ![t] = NoCall]
    /\ scope' = [scope EXCEPT ![t] = NoScope]
    /\ result' = [result EXCEPT ![t] = NoResult]
    /\ top' = [top EXCEPT ![t] = NoCall]
    /\ pre' = [pre EXCEPT ![t] = NoPre]
    /\ obs' = [obs EXCEPT ![t] = NoObs]
    /\ UNCHANGED <<clientVars, adminVars, envVars, storeVars, lastInit, nCalls>>

\* ------------------------------------------------- environment
AllIdle == \A t \in Callers : pc[t] = "idle"

\* the credentials file appears or disappears between calls
SetCreds ==
    /\ AllIdle
    /\ credsExist' = ~credsExist
    /\ UNCHANGED <<clientVars, adminVars, fault, storeVars, pc, call, scope, result,
                   top, pre, obs, lastInit, nCalls, osEnviron, config>>

\* a cause of failure of the lower layer appears or disappears between calls
SetFault ==
    /\ AllIdle
    /\ \E f \in Faults \ {fault} : fault' = f
    /\ UNCHANGED <<clientVars, adminVars, credsExist, storeVars, pc, call, scope,
                   result, top, pre, obs, lastInit, nCalls, osEnviron, config>>

\* ------------------------------------------------- specifications
Step(t) ==
    \/ CallInitialize(t) \/ CallDb(t) \/ CallCreateDocument(t)
    \/ CallGetDocument(t) \/ CallTransaction(t) \/ Finish(t)
    \/ InitCheck(t) \/ CredsCheck(t) \/ Certificate(t) \/ InitializeApp(t)
    \/ GetApp(t) \/ FirestoreClientStep(t) \/ SetInitialized(t)
    \/ DbCheck(t) \/ DbReturn(t)
    \/ CreateBranch(t) \/ DocSet(t) \/ CollectionAdd(t) \/ CreateReturn(t)
    \/ GetDocumentDb(t) \/ GetDocumentRead(t)
    \/ TransactionDb(t) \/ TransactionAcquire(t)
    \/ BodyCreateDocument(t) \/ BodyTransactionSet(t) \/ BodyComplete(t)
    \/ BodyRaise(t) \/ TransactionExcept(t) \/ TransactionExit(t)

\* one caller uses the client
Next == Step(1) \/ SetCreds \/ SetFault

Spec == Init /\ [][Next]_vars

\* several callers share the client
ConcurrentNext == (\E t \in Callers : Step(t)) \/ SetCreds \/ SetFault

ConcurrentSpec == Init /\ [][ConcurrentNext]_vars

\* ------------------------------------------------- resolving the configuration
\* values the environment variables read by Config can be set to
CorsChars == {"*", "a", ","}
CorsValues == UNION {[1..n -> CorsChars] : n \in 0..MaxCorsLen}
EnvironChoices(name, values) == {EmptyEnviron} \cup {name :> v : v \in values}
Environs ==
    {e1 @@ e2 @@ e3 @@ e4 :
        e1 \in EnvironChoices("ENVIRONMENT",
                              {"development", "staging", "production", "prod"}),
        e2 \in EnvironChoices("API_DEBUG", {"true", "True", "false", "1"}),
        e3 \in EnvironChoices("CORS_ORIGINS", CorsValues),
        e4 \in EnvironChoices("FIREBASE_PROJECT_ID", {"", "p"})}

\* the process before config.py is imported, under any environment
ConfigInit ==
    /\ osEnviron \in Environs
    /\ config = Unbuilt
    /\ app = None
    /\ db = None
    /\ initialized = FALSE
    /\ defaultApp = FALSE
    /\ initAppCalls = 0
    /\ credsExist = TRUE
    /\ fault = "none"
    /\ store = EmptyStore
    /\ autoCount = 0
    /\ pc = [t \in Callers |-> "idle"]
    /\ call = [t \in Callers |-> NoCall]
    /\ scope = [t \in Callers |-> NoScope]
    /\ result = [t \in Callers |-> NoResult]
    /\ top = [t \in Callers |-> NoCall]
    /\ pre = [t \in Callers |-> NoPre]
    /\ obs = [t \in Callers |-> NoObs]
    /\ lastInit = None
    /\ written = EmptyStore
    /\ nCalls = 0

\* line 96: config = Config()
ConstructConfig ==
    /\ config.status = "unbuilt"
    /\ config' = NewConfig(osEnviron)
    /\ UNCHANGED <<clientVars, adminVars, credsExist, fault, osEnviron, storeVars, pc,
                   call, scope, result, top, pre, obs, lastInit, nCalls>>

ConfigNext == ConstructConfig

ConfigSpec == ConfigInit /\ [][ConfigNext]_vars

\* ------------------------------------------------- properties
Done(t, op) == pc[t] = "done" /\ top[t].op = op
Returned(t, v) == result[t] = [kind |-> "return", value |-> v]
Raised(t, e) == result[t] = [kind |-> "raise", value |-> e]
ClientAsBefore(t) ==
    /\ app = pre[t].app
    /\ db = pre[t].db
    /\ initialized = pre[t].initialized
ConnectionsMade(t) == initAppCalls - pre[t].initAppCalls
LowerLevelFailures == {"CertificateError", "FirebaseError"}

\* C1: callers whose first access of db overlaps on a client that is not yet
\* initialized cause at most one initialize_app call between them and all
\* get the same outcome, the same handle or the same failure (stated here
\* for the runs in which the credentials exist and no lower layer fails).
C1_ConcurrentFirstUse ==
    \A t1, t2 \in Callers :
        ( /\ t1 # t2
          /\ Done(t1, "db") /\ Done(t2, "db")
          /\ pre[t1] = pre[t2]
          /\ ~pre[t1].initialized /\ pre[t1].app = None
          /\ credsExist /\ fault = "none" )
        => /\ result[t1] = result[t2]
           /\ ConnectionsMade(t1) <= 1

\* C2: initialize() on a client that an earlier call initialized returns True,
\* changes no state and calls initialize_app no more; the call that
\* initialized the client called initialize_app exactly once.
C2_InitializeTwice ==
    \A t \in Callers :
        Done(t, "initialize") =>
            /\ (pre[t].initialized /\ pre[t].app # None)
                  => /\ Returned(t, "True")
                     /\ ClientAsBefore(t)
                     /\ store = pre[t].store
                     /\ ConnectionsMade(t) = 0
            /\ (~pre[t].initialized /\ Returned(t, "True"))
                  => /\ initialized
                     /\ ConnectionsMade(t) = 1

C2_Witness ==
    /\ Done(1, "initialize")
    /\ pre[1].initialized
    /\ pre[1].lastInit = "True"
    /\ Returned(1, "True")
    /\ initAppCalls = 1

\* C3: when the body of a transaction scope completes normally, the
\* transaction has been committed (or, the commit failing, aborted) by the
\* time the scope returns to its caller.
C3_CommitOnNormalExit ==
    \A t \in Callers :
        (Done(t, "transaction") /\ result[t].kind = "return")
            => scope[t].status \in {"committed", "aborted"}

\* C4: after a transaction whose body made one write and then raised, the
\* store is as it was before the transaction.
C4_NoPartialWrite ==
    \A t \in Callers :
        ( /\ Done(t, "transaction")
          /\ result[t].kind = "raise"
          /\ scope[t].bodyCalls = 1 )
        => store = pre[t].store

\* C5: when the body of a transaction scope raises, the transaction is
\* aborted and the caller gets that same error.
C5_AbortAndReraise ==
    \A t \in Callers :
        (Done(t, "transaction") /\ scope[t].error # None)
            => /\ scope[t].status = "aborted"
               /\ Raised(t, scope[t].error)

\* C6: an initialize() that fails leaves the initialized flag false, and an
\* initialize() called when the previous one failed on a lower-level failure
\* whose cause is gone returns True.
C6_RetryAfterFailure ==
    \A t \in Callers :
        Done(t, "initialize") =>
            /\ (result[t].kind = "raise" /\ ~pre[t].initialized) => ~initialized
            /\ ( /\ pre[t].lastInit \in LowerLevelFailures
                 /\ fault = "none"
                 /\ credsExist )
               => /\ Returned(t, "True")
                  /\ initialized

C8_SuppliedIdentifier ==
    \A t \in Callers :
        ( /\ Done(t, "create_document")
          /\ top[t].arg_id # None
          /\ result[t].kind = "return" )
        => /\ Returned(t, top[t].arg_id)
           /\ store[<<top[t].collection, top[t].arg_id>>] = top[t].data

\* C9: get_document(c, x) after a successful create_document(c, d, x), with
\* no later write to (c, x), returns d.
C9_RoundTrip ==
    \A t \in Callers :
        ( /\ Done(t, "get_document")
          /\ result[t].kind = "return"
          /\ written[<<top[t].collection, top[t].arg_id>>] # None )
        => Returned(t, written[<<top[t].collection, top[t].arg_id>>])

\* C10: when the remote write of create_document fails, the caller gets that
\* error after exactly one write attempt, and the store is unchanged.
C10_WriteFailure ==
    \A t \in Callers :
        (Done(t, "create_document") /\ obs[t].writeError # None)
            => /\ Raised(t, obs[t].writeError)
               /\ obs[t].attempts = 1
               /\ store = pre[t].store

C10_Witness ==
    /\ Done(1, "create_document")
    /\ obs[1].writeError = "FirebaseError"
    /\ Raised(1, "FirebaseError")
    /\ obs[1].attempts = 1

\* C11: create_document called without an identifier returns a non-empty
\* identifier generated by the store, different from every identifier
\* generated before, and adds the document without touching any document
\* that was in the store.
C11_PureInsert ==
    \A t \in Callers :
        ( /\ Done(t, "create_document")
          /\ top[t].arg_id = None
          /\ result[t].kind = "return" )
        => LET id == result[t].value
               key == <<top[t].collection, id>> IN
           /\ id \in AutoIds
           /\ id # ""
           /\ id \notin {AutoIdPool[i] : i \in 1..pre[t].autoCount}
           /\ pre[t].store[key] = None
           /\ store = [pre[t].store EXCEPT ![key] = top[t].data]

C11_Witness ==
    /\ Done(1, "create_document")
    /\ top[1].arg_id = None
    /\ pre[1].autoCount = 1
    /\ Returned(1, AutoIdPool[2])
    /\ \E k \in DOMAIN store : pre[1].store[k] # None /\ store[k] = pre[1].store[k]

Tag == Getenv(osEnviron, "ENVIRONMENT", "development")
Built == config.status # "unbuilt"

\* C12: a snapshot constructed with the production tag has debug false and
\* no wildcard in its origin list; with the production tag and debug true or
\* a wildcard in the list, construction raises and there is no snapshot.
C12_ProductionSafe ==
    /\ \A c \in config.snapshots :
          c.environment = "production"
              => ~c.api.debug /\ ~InList(WILDCARD, c.api.cors_origins)
    /\ ( /\ Built
         /\ Tag = "production"
         /\ \/ APIConfig(osEnviron).debug
            \/ InList(WILDCARD, APIConfig(osEnviron).cors_origins) )
       => /\ config.status = "ValueError"
          /\ config.snapshots = {}

C12_Witness ==
    /\ Built
    /\ Tag = "production"
    /\ ~APIConfig(osEnviron).debug
    /\ APIConfig(osEnviron).cors_origins = << <<"a">>, <<"*">> >>
    /\ config.error = "Wildcard CORS origins not allowed in production"
    /\ config.snapshots = {}

\* C13: with an empty project identifier construction raises under every
\* environment tag and there is no snapshot; every snapshot there is has a
\* non-empty project identifier.
C13_ProjectIdRequired ==
    /\ \A c \in config.snapshots : c.firebase.project_id # ""
    /\ (Built /\ FirebaseConfig(osEnviron).project_id = "")
          => /\ config.status = "ValueError"
             /\ config.snapshots = {}

C13_Witness ==
    /\ Built
    /\ Tag = "staging"
    /\ FirebaseConfig(osEnviron).project_id = ""
    /\ config.error = "Firebase project ID is required"
    /\ config.snapshots = {}

\* C14: once the client is initialized no step of any operation, successful
\* or failing, changes _app or _db or resets _initialized, and every later
\* access of db returns the handle that was stored.
C14_WrittenOnce ==
    /\ [][initialized => (app' = app /\ db' = db /\ initialized')]_vars
    /\ [](\A t \in Callers :
            (Done(t, "db") /\ pre[t].initialized)
                => /\ pre[t].db # None
                   /\ Returned(t, pre[t].db))

C14_Witness ==
    /\ Done(1, "db")
    /\ pre[1].initialized
    /\ pre[1].db = "Client"
    /\ Returned(1, "Client")
    /\ initAppCalls = 1

\* positions at which a method issues its remote call on the handle
RemotePcs == {"cd_l111", "cd_l115", "gd_read", "tx_l85b"}
StoreOps == {"create_document", "get_document", "transaction"}

\* C15: a method is at its remote call only on a client whose initialization
\* succeeded; a store operation on a client that is not initialized runs
\* initialize() exactly once, before its remote call, and when that
\* initialize() fails the operation raises without any remote call; on an
\* initialized client it runs no initialize().
C15_LazyConnection ==
    \A t \in Callers :
        /\ pc[t] \in RemotePcs
              => initialized /\ db # None /\ lastInit = "True"
        /\ (pc[t] = "done" /\ top[t].op \in StoreOps)
              => /\ obs[t].lazyInits = IF pre[t].initialized THEN 0 ELSE 1
                 /\ ~initialized
                       => /\ result[t].kind = "raise"
                          /\ obs[t].attempts = 0
                          /\ scope[t].status = "none"
                          /\ store = pre[t].store

C15_Witness ==
    /\ Done(1, "create_document")
    /\ ~pre[1].initialized
    /\ obs[1].lazyInits = 1
    /\ Raised(1, "FirebaseError")
    /\ lastInit = "FirebaseError"
    /\ obs[1].attempts = 0

C15_WitnessIssued ==
    /\ pc[1] = "cd_l111"
    /\ ~pre[1].initialized
    /\ obs[1].lazyInits = 1
    /\ initialized

\* C16: whenever no method is running, _initialized is true exactly when
\* both _app and _db are set, and _app is never set while _initialized is
\* false.
C16_FlagAgreesWithReferences ==
    (\A t \in Callers : pc[t] \in {"idle", "done"})
        => /\ initialized <=> (app # None /\ db # None)
           /\ ~(app # None /\ ~initialized)

====
